---- MODULE Spec2Model ----
(***************************************************************************)
(* Model of the BBS PDF convertor: the extraction and normalisation        *)
(* pipeline of src/app.py (Streamlit) and src/run.py (Flask), the column   *)
(* mapper, and the session storage of both front ends.                     *)
(*                                                                         *)
(* Text is modelled by TLA+ strings (TLC evaluates Len, SubSeq and \o on   *)
(* them), a DataFrame by a record [columns, rows] whose rows all have      *)
(* Len(columns) cells.                                                     *)
(***************************************************************************)
EXTENDS Integers, Sequences, FiniteSets, TLC

VARIABLES
    \* ---- a single call of a pure helper (make_columns_unique, remove_sparse_rows)
    fn,             \* which helper is called
    fn_pc,          \* "ready" before the call, "returned" after it
    cols_in,        \* argument of make_columns_unique
    cols_out,       \* its return value
    df_in,          \* argument of remove_sparse_rows
    df_out,         \* its return value
    \* ---- one call of extract_tables of src/app.py
    pc,             \* the control point of the call
    uploaded_file,  \* the PDF: its pages, each with its words and detectable tables
    fault,          \* what the environment lets fail during this call
    tmp_exists,     \* whether the temporary PDF file exists on disk
    examined,       \* how many pages find_start_page has extracted the words of
    start_page,     \* find_start_page's result (NoIndex: None)
    engine_calls,   \* the flavors camelot.read_pdf was called with, in order
    tables,         \* the tables the engine returned
    t,              \* how many of them the loop has processed
    current_headers,\* the carried header
    all_tables,     \* the surviving fragments
    last,           \* what the last pass of the loop computed
    ret,            \* the value returned
    exc,            \* the exception raised ("" for none)
    \* ---- one browser session of the Streamlit script of src/app.py
    st_uploaded_file, \* the file_uploader's value: <<>> or <<the PDF>>
    session_state,  \* st.session_state: data and xlsx_output, each set or not
    screen,         \* what the last run of the script rendered
    event,          \* the interaction that triggered the last run
    \* ---- the Flask application of src/run.py and its clients
    temp_pkl,       \* the file "temp.pkl": <<>> or <<the pickled table>>
    last_upload,    \* per client, the PDF of its latest upload that was accepted
    response        \* the latest response the server sent, and to which client

fnVars == <<fn, fn_pc, cols_in, cols_out, df_in, df_out>>

exVars == <<pc, uploaded_file, fault, tmp_exists, examined, start_page, engine_calls,
            tables, t, current_headers, all_tables, last, ret, exc>>

stVars == <<st_uploaded_file, session_state, screen, event>>

flVars == <<temp_pkl, last_upload, response>>

vars == <<fnVars, exVars, stVars, flVars>>

-----------------------------------------------------------------------------
(* Bounds of the model. *)

\* longest label list / widest table handed to a pure helper
FnMaxCols == 3
\* most rows of a table handed to remove_sparse_rows
FnMaxRows == 2
\* most pages of an uploaded PDF
MaxPages == 3
\* the user sessions (browsers) that talk to the Flask application
NumSessions == 2

-----------------------------------------------------------------------------
(* Strings. *)

UpperAlphabet == "ABCDEFGHIJKLMNOPQRSTUVWXYZ"
LowerAlphabet == "abcdefghijklmnopqrstuvwxyz"

\* the characters Python's str.strip() and the regex class \s treat as whitespace
IsSpace(ch) == ch \in {" ", "\n", "\t"}

CharAt(s, i) == SubSeq(s, i, i)

\* str.lower() on one character
LowerChar(ch) ==
    IF \E i \in 1..Len(UpperAlphabet) : CharAt(UpperAlphabet, i) = ch
    THEN CharAt(LowerAlphabet, CHOOSE i \in 1..Len(UpperAlphabet) : CharAt(UpperAlphabet, i) = ch)
    ELSE ch

RECURSIVE Lower(_)
\* str.lower()
Lower(s) ==
    IF Len(s) = 0 THEN "" ELSE LowerChar(CharAt(s, 1)) \o Lower(SubSeq(s, 2, Len(s)))

RECURSIVE LStrip(_)
LStrip(s) ==
    IF Len(s) > 0 /\ IsSpace(CharAt(s, 1)) THEN LStrip(SubSeq(s, 2, Len(s))) ELSE s

RECURSIVE RStrip(_)
RStrip(s) ==
    IF Len(s) > 0 /\ IsSpace(CharAt(s, Len(s))) THEN RStrip(SubSeq(s, 1, Len(s) - 1)) ELSE s

\* str.strip()
Strip(s) == RStrip(LStrip(s))

\* the Python test `pat in text`
Contains(text, pat) ==
    \E i \in 1..(Len(text) - Len(pat) + 1) : SubSeq(text, i, i + Len(pat) - 1) = pat

RECURSIVE Join(_, _)
\* sep.join(parts)
Join(parts, sep) ==
    IF Len(parts) = 0 THEN ""
    ELSE IF Len(parts) = 1 THEN parts[1]
    ELSE parts[1] \o sep \o Join(Tail(parts), sep)

RECURSIVE ReplaceNewlines(_)
\* replace("\n", " ", regex=True) on one cell
ReplaceNewlines(s) ==
    IF Len(s) = 0 THEN ""
    ELSE (IF CharAt(s, 1) = "\n" THEN " " ELSE CharAt(s, 1))
         \o ReplaceNewlines(SubSeq(s, 2, Len(s)))

RECURSIVE CollapseSpaces(_)
\* str.replace(r'\s+', ' ', regex=True) on one cell
CollapseSpaces(s) ==
    IF Len(s) = 0 THEN ""
    ELSE IF IsSpace(CharAt(s, 1))
         THEN " " \o CollapseSpaces(LStrip(s))
         ELSE CharAt(s, 1) \o CollapseSpaces(SubSeq(s, 2, Len(s)))

-----------------------------------------------------------------------------
(* Sequences and tables. *)

SeqsUpTo(S, n) == UNION {[1..k -> S] : k \in 0..n}

\* F applied to the value of v: names an intermediate result that is used more
\* than once, as a local variable of the code does
With(v, F(_)) == F(v)

\* the elements of s at the indices satisfying keep, in their order
RECURSIVE FilterIdx(_, _, _)
FilterIdx(s, keep, i) ==
    IF i > Len(s) THEN <<>>
    ELSE (IF keep[i] THEN <<s[i]>> ELSE <<>>) \o FilterIdx(s, keep, i + 1)

\* df[mask]: the rows whose mask entry is true, in order
SelectRows(df, mask) == [df EXCEPT !.rows = FilterIdx(df.rows, mask, 1)]

\* the number of cells of a row that are non-empty after trimming
NonEmptyCount(row) == Cardinality({j \in 1..Len(row) : Strip(row[j]) # ""})

-----------------------------------------------------------------------------
(* src/app.py and src/run.py: the helpers both files define identically. *)

\* threshold=0.5
Half == [num |-> 1, den |-> 2]

\* count / n_cols > 1 - threshold, with the threshold a fraction num/den
remove_sparse_rows_at_least(df, threshold) ==
    LET n_cols == Len(df.columns)
        mask == [i \in 1..Len(df.rows) |->
                    NonEmptyCount(df.rows[i]) * threshold.den
                        >= n_cols * (threshold.den - threshold.num)]
    IN  SelectRows(df, mask)

remove_sparse_rows(df, threshold) ==
    LET n_cols == Len(df.columns)
        mask == [i \in 1..Len(df.rows) |->
                    NonEmptyCount(df.rows[i]) * threshold.den
                        > n_cols * (threshold.den - threshold.num)]
    IN  SelectRows(df, mask)

\* one pass of the loop of make_columns_unique: label i, given the counts so far
RECURSIVE mcu_loop(_, _, _, _)
mcu_loop(cols, i, seen, new_cols) ==
    IF i > Len(cols) THEN new_cols
    ELSE LET c == Strip(cols[i])
             label == IF c \in DOMAIN seen
                      THEN c \o "_" \o ToString(seen[c] + 1)
                      ELSE c
             count == IF c \in DOMAIN seen THEN seen[c] ELSE 0
             seen2 == [k \in (DOMAIN seen) \cup {c} |->
                          IF k = c THEN count + 1 ELSE seen[k]]
         IN  mcu_loop(cols, i + 1, seen2, Append(new_cols, label))

\* the same loop with the count never advanced past the first repeat
RECURSIVE mcu_loop_stuck(_, _, _, _)
mcu_loop_stuck(cols, i, seen, new_cols) ==
    IF i > Len(cols) THEN new_cols
    ELSE LET c == Strip(cols[i])
             label == IF c \in DOMAIN seen
                      THEN c \o "_" \o ToString(seen[c] + 1)
                      ELSE c
             seen2 == [k \in (DOMAIN seen) \cup {c} |->
                          IF k = c THEN 1 ELSE seen[k]]
         IN  mcu_loop_stuck(cols, i + 1, seen2, Append(new_cols, label))

make_columns_unique_stuck(cols) == mcu_loop_stuck(cols, 1, <<>>, <<>>)

make_columns_unique(cols) == mcu_loop(cols, 1, <<>>, <<>>)

-----------------------------------------------------------------------------
(* src/app.py: the rest of the pipeline. *)

HEADERS == <<"Bar Mark", "Type", "Size", "Total No.", "Shape No.",
             "a", "b", "c", "d", "e", "f", "g", "h", "i">>
KEY_COLUMNS == <<"Bar Mark", "Type", "Size", "Total No.", "Shape No.">>

\* float('nan'), the missing-value marker of pandas; no cell text equals it
NaN == "<NaN>"

\* astype(str) on one cell
AsStr(cell) == IF cell = NaN THEN "nan" ELSE cell

Range(s) == {s[i] : i \in 1..Len(s)}

HasDuplicates(s) == \E i, j \in 1..Len(s) : i < j /\ s[i] = s[j]

\* the position of the (first) column labelled c
ColIdx(df, c) == CHOOSE j \in 1..Len(df.columns) :
                    /\ df.columns[j] = c
                    /\ \A k \in 1..(j - 1) : df.columns[k] # c

\* the table restricted to the columns at the positions satisfying keep
SelectCols(df, keep) ==
    [columns |-> FilterIdx(df.columns, keep, 1),
     rows |-> [i \in 1..Len(df.rows) |-> FilterIdx(df.rows[i], keep, 1)]]

\* the default column labels of a DataFrame, 0 .. n-1, as str() renders them
RangeColumns(n) == [i \in 1..n |-> ToString(i - 1)]

\* return None of find_start_page and find_header_row
NoIndex == 0

\* the text find_start_page tests: the page's words, lowercased, joined by spaces
page_text(page) == Join([i \in 1..Len(page.words) |-> Lower(page.words[i])], " ")

\* a page test that is satisfied by either marker alone
page_qualifies_either(page) ==
    With(page_text(page), LAMBDA text :
        Contains(text, "bar") \/ Contains(text, "mark"))

\* line 31: "bar" in text and "mark" in text
page_qualifies(page) ==
    With(page_text(page), LAMBDA text :
        Contains(text, "bar") /\ Contains(text, "mark"))

RECURSIVE find_start_page_from(_, _)
find_start_page_from(pages, i) ==
    IF i > Len(pages) THEN NoIndex
    ELSE IF page_qualifies(pages[i]) THEN i
    ELSE find_start_page_from(pages, i + 1)

\* the 1-based index of the first qualifying page, or NoIndex
find_start_page(pages) == find_start_page_from(pages, 1)

row_is_header(row) ==
    With(Join([j \in 1..Len(row) |-> Lower(AsStr(row[j]))], " "), LAMBDA row_text :
        /\ Contains(row_text, "bar mark")
        /\ (Contains(row_text, "shape code") \/ Contains(row_text, "shape no")))

RECURSIVE find_header_row_from(_, _)
find_header_row_from(df, i) ==
    IF i > Len(df.rows) THEN NoIndex
    ELSE IF row_is_header(df.rows[i]) THEN i
    ELSE find_header_row_from(df, i + 1)

\* the position (from 1) of the first header row of df, or NoIndex
find_header_row(df) == find_header_row_from(df, 1)

\* df.dropna(axis=1, how='all'): a column stays if some row holds a value in it
dropna_columns(df) ==
    SelectCols(df, [j \in 1..Len(df.columns) |->
                       \E i \in 1..Len(df.rows) : df.rows[i][j] # NaN])

\* whether clean_dataframe raises: with a repeated label df[col] is a DataFrame,
\* which has no .str accessor (AttributeError)
clean_dataframe_raises(df) == HasDuplicates(dropna_columns(df).columns)

clean_dataframe(df) ==
    With(dropna_columns(df), LAMBDA d :
        [d EXCEPT !.rows = [i \in 1..Len(d.rows) |->
                              [j \in 1..Len(d.columns) |->
                                  Strip(CollapseSpaces(AsStr(d.rows[i][j])))]]])

filter_key_rows(df) ==
    With(SelectSeq(KEY_COLUMNS, LAMBDA c : c \in Range(df.columns)), LAMBDA required_cols :
        IF Len(required_cols) = 0 THEN df
        ELSE SelectRows(df, [i \in 1..Len(df.rows) |->
                                \A k \in 1..Len(required_cols) :
                                    Strip(AsStr(df.rows[i][ColIdx(df, required_cols[k])])) # ""]))

\* lines 104-105: rows with an empty "Bar Mark" go
filter_bar_mark(df) ==
    IF "Bar Mark" \in Range(df.columns)
    THEN SelectRows(df, [i \in 1..Len(df.rows) |->
                            Strip(AsStr(df.rows[i][ColIdx(df, "Bar Mark")])) # ""])
    ELSE df

EmptyDf == [columns |-> <<>>, rows |-> <<>>]

\* df.empty
IsEmptyDf(df) == Len(df.columns) = 0 \/ Len(df.rows) = 0

\* table.df of one detected table: the cell grid under default column labels
table_df(grid) == [columns |-> RangeColumns(Len(grid[1])), rows |-> grid]

\* current_headers: <<>> is None, <<labels>> a carried header
NoHeaders == <<>>

\* line 89: table.df.replace("\n", " ", regex=True)
replace_newlines(df) ==
    [df EXCEPT !.rows = [i \in 1..Len(df.rows) |->
                           [j \in 1..Len(df.columns) |-> ReplaceNewlines(df.rows[i][j])]]]

\* a carried header that is forgotten by a table without a header row
carry_headers_reset(df, header_idx, carried_headers) ==
    IF header_idx # NoIndex
    THEN <<[j \in 1..Len(df.columns) |-> Strip(df.rows[header_idx][j])]>>
    ELSE NoHeaders

\* lines 92-93: current_headers after the header row search of a table
carry_headers(df, header_idx, carried_headers) ==
    IF header_idx # NoIndex
    THEN <<[j \in 1..Len(df.columns) |-> Strip(df.rows[header_idx][j])]>>
    ELSE carried_headers

\* One pass of the loop over the tables (lines 88-108), from the carried header:
\* the header carried on, the labels before and after make_columns_unique, whether
\* clean_dataframe raised, the table after clean_dataframe and after the filters.
process_table(grid, carried_headers) ==
    With(replace_newlines(table_df(grid)), LAMBDA df0 :
    With(find_header_row(df0), LAMBDA header_idx :
    With(carry_headers(df0, header_idx, carried_headers), LAMBDA headers2 :
    With(IF header_idx # NoIndex
         THEN [df0 EXCEPT !.rows = SubSeq(df0.rows, header_idx + 1, Len(df0.rows))]
         ELSE df0, LAMBDA df1 :
    With(IF headers2 # NoHeaders /\ Len(df1.columns) = Len(headers2[1])
         THEN [df1 EXCEPT !.columns = headers2[1]]
         ELSE df1, LAMBDA df2 :
    With([df2 EXCEPT !.columns = make_columns_unique(df2.columns)], LAMBDA df3 :
    With(clean_dataframe_raises(df3), LAMBDA raised :
    With(clean_dataframe(df3), LAMBDA df4 :
    With(filter_bar_mark(remove_sparse_rows(filter_key_rows(df4), Half)), LAMBDA df5 :
        [current_headers |-> headers2,
         header_idx |-> header_idx,
         width |-> Len(df0.columns),
         carried |-> carried_headers,
         assigned |-> df2.columns,
         unique |-> df3.columns,
         raised |-> raised,
         cleaned |-> IF raised THEN df3 ELSE df4,
         out |-> IF raised THEN df3 ELSE df5])))))))))

\* the labels of the tables in order of first appearance
RECURSIVE concat_columns(_, _, _)
concat_columns(dfs, i, acc) ==
    IF i > Len(dfs) THEN acc
    ELSE concat_columns(dfs, i + 1,
            acc \o SelectSeq(dfs[i].columns, LAMBDA c : c \notin Range(acc)))

RECURSIVE concat_rows(_, _, _)
concat_rows(dfs, i, columns) ==
    IF i > Len(dfs) THEN <<>>
    ELSE [r \in 1..Len(dfs[i].rows) |->
             [j \in 1..Len(columns) |->
                 IF columns[j] \in Range(dfs[i].columns)
                 THEN dfs[i].rows[r][ColIdx(dfs[i], columns[j])]
                 ELSE NaN]]
         \o concat_rows(dfs, i + 1, columns)

\* pd.concat(all_tables, ignore_index=True, sort=False)
concat(dfs) ==
    With(concat_columns(dfs, 1, <<>>), LAMBDA columns :
        [columns |-> columns, rows |-> concat_rows(dfs, 1, columns)])

RECURSIVE read_pdf_from(_, _, _)
read_pdf_from(pages, i, flavor) ==
    IF i > Len(pages) THEN <<>>
    ELSE (IF flavor = "lattice" THEN pages[i].lattice ELSE pages[i].stream)
         \o read_pdf_from(pages, i + 1, flavor)

\* camelot.read_pdf(path, pages="<start>-end", flavor=...): the tables the engine
\* detects on the pages from first_page on, in page order
read_pdf(pages, first_page, flavor) == read_pdf_from(pages, first_page, flavor)

-----------------------------------------------------------------------------
(* The uploads: PDFs made of pages from a pool. A page has its words (what       *)
(* pdfplumber extracts) and the cell grids the engine detects on it under each   *)
(* flavor.                                                                       *)

\* a header row, a complete row, a row without Bar Mark, a row with a blank Type
GridHead == << <<"Bar Mark", "Type", "Shape No.">>,
               <<"B1", "T1", "1">>,
               <<"", "T1", "2">>,
               <<"B2", " ", "3">> >>

\* a title row above a header row whose first cell holds a line break
GridTitle == << <<"SCHEDULE", "", "">>,
                <<"Bar\nMark", "Type", "Shape Code">>,
                <<"B3", "T  2", "5">> >>

\* a continuation without a header row, three columns wide
GridCont == << <<"B4", "T1", "7">>,
               <<"", "T1", "8">> >>

\* a table without a header row, two columns wide
GridNarrow == << <<"x", "">>,
                 <<"y", "z">> >>

\* a header row that repeats label "a" and also holds "a_2"
GridDup == << <<"Bar Mark", "Shape No.", "a", "a", "a_2">>,
              <<"B6", "1", "2", "3", "4">> >>

\* a header row over a column "a" that is empty in every row
GridEmptyCol == << <<"Bar Mark", "Shape No.", "a", "b">>,
                   <<"B7", "9", "", "1">>,
                   <<"B8", "9", "", "">> >>

PageHead == [words |-> <<"BAR", "Mark", "Type">>, lattice |-> <<GridHead>>, stream |-> <<>>]
PageTitle == [words |-> <<"Bar", "Mark">>, lattice |-> <<GridTitle>>, stream |-> <<>>]
PageCont == [words |-> <<"continued", "Remarks">>, lattice |-> <<GridCont, GridNarrow>>,
             stream |-> <<>>]
PageStream == [words |-> <<"embark", "remark">>, lattice |-> <<>>, stream |-> <<GridNarrow>>]
PageDup == [words |-> <<"bar", "mark">>, lattice |-> <<GridDup>>, stream |-> <<>>]
PageEmptyCol == [words |-> <<"Bar", "mark">>, lattice |-> <<GridEmptyCol>>, stream |-> <<>>]

PagePool == {PageHead, PageTitle, PageCont, PageStream, PageDup, PageEmptyCol}

Uploads == SeqsUpTo(PagePool, MaxPages)

\* what may fail during one call: nothing, writing the temporary file, reading
\* the pages (pdfplumber), detecting the tables (camelot)
Faults == {"none", "write", "scan", "engine"}

-----------------------------------------------------------------------------
(* extract_tables as one call, and the column mapper. *)

RetUnset == [kind |-> "unset", df |-> EmptyDf]
RetNone == [kind |-> "None", df |-> EmptyDf]
RetDf(df) == [kind |-> "df", df |-> df]

\* the loop over the tables (lines 88-108), run to its end or to the first raise
RECURSIVE tables_loop(_, _, _, _)
tables_loop(tabs, i, headers, acc) ==
    IF i > Len(tabs) THEN [raised |-> FALSE, all_tables |-> acc]
    ELSE With(process_table(tabs[i], headers), LAMBDA r :
            IF r.raised THEN [raised |-> TRUE, all_tables |-> acc]
            ELSE tables_loop(tabs, i + 1, r.current_headers,
                             IF IsEmptyDf(r.out) THEN acc ELSE Append(acc, r.out)))

\* lines 77-111 of src/app.py (57-83 of src/run.py), from the page scan to the
\* return, given what the environment lets fail: the exception raised, if any,
\* and the fragments to concatenate, if the loop was reached
extract_body(pages, flt) ==
    With(find_start_page(pages), LAMBDA first_page :
        IF flt = "scan" THEN [exc |-> "PDFSyntaxError", found |-> FALSE, all_tables |-> <<>>]
        ELSE IF first_page = NoIndex THEN [exc |-> "", found |-> FALSE, all_tables |-> <<>>]
        ELSE IF flt = "engine" THEN [exc |-> "EngineError", found |-> TRUE, all_tables |-> <<>>]
        ELSE
    With(read_pdf(pages, first_page, "lattice"), LAMBDA lattice :
    With(IF Len(lattice) = 0 THEN read_pdf(pages, first_page, "stream") ELSE lattice,
         LAMBDA tabs :
    With(tables_loop(tabs, 1, NoHeaders, <<>>), LAMBDA r :
        IF r.raised THEN [exc |-> "AttributeError", found |-> TRUE, all_tables |-> <<>>]
        ELSE [exc |-> "", found |-> TRUE, all_tables |-> r.all_tables]))))

\* src/app.py, extract_tables: None when no page has the marker or no fragment
\* survives
extract_tables(pages, flt) ==
    IF flt = "write" THEN [exc |-> "OSError", ret |-> RetUnset]
    ELSE With(extract_body(pages, flt), LAMBDA b :
            IF b.exc # "" THEN [exc |-> b.exc, ret |-> RetUnset]
            ELSE IF Len(b.all_tables) = 0 THEN [exc |-> "", ret |-> RetNone]
            ELSE [exc |-> "", ret |-> RetDf(concat(b.all_tables))])

\* src/run.py, extract_tables: an empty DataFrame where src/app.py returns None;
\* there is no temporary file to write
run_extract_tables(pages, flt) ==
    With(extract_body(pages, flt), LAMBDA b :
        IF b.exc # "" THEN [exc |-> b.exc, ret |-> RetUnset]
        ELSE IF Len(b.all_tables) = 0 THEN [exc |-> "", ret |-> RetDf(EmptyDf)]
        ELSE [exc |-> "", ret |-> RetDf(concat(b.all_tables))])

\* the selectbox option that maps a header to no column
Ignore == "(Ignore)"

\* pd.DataFrame(final_dict) raises ValueError when every value is the scalar ""
\* ("If using all scalar values, you must pass an index")
build_output_raises(df, mapping) ==
    \A k \in 1..Len(HEADERS) : mapping[HEADERS[k]] = Ignore

\* lines 159-166 of src/app.py (96-97 of src/run.py): one column per header, in
\* the order of HEADERS; a mapped header copies its source column, an ignored one
\* is the scalar "" broadcast over the rows
build_output(df, mapping) ==
    [columns |-> HEADERS,
     rows |-> [i \in 1..Len(df.rows) |->
                 [k \in 1..Len(HEADERS) |->
                     IF mapping[HEADERS[k]] = Ignore THEN ""
                     ELSE df.rows[i][ColIdx(df, mapping[HEADERS[k]])]]]]

\* to_excel(..., index=False): the header row, then one row per data row; a
\* missing value is written as an empty cell
to_excel(df) ==
    <<df.columns>> \o [i \in 1..Len(df.rows) |->
                         [j \in 1..Len(df.columns) |->
                             IF df.rows[i][j] = NaN THEN "" ELSE df.rows[i][j]]]

RECURSIVE RemoveNanText(_)
\* every occurrence of the text 'nan' in a cell removed
RemoveNanText(x) ==
    IF Len(x) < 3 THEN x
    ELSE IF SubSeq(x, 1, 3) = "nan" THEN RemoveNanText(SubSeq(x, 4, Len(x)))
    ELSE CharAt(x, 1) \o RemoveNanText(SubSeq(x, 2, Len(x)))

\* line 139: df.replace('nan', '', regex=True), which leaves missing values alone
display_df(df) ==
    [df EXCEPT !.rows = [i \in 1..Len(df.rows) |->
                           [j \in 1..Len(df.columns) |->
                               IF df.rows[i][j] = NaN THEN NaN
                               ELSE RemoveNanText(df.rows[i][j])]]]

\* the mappings a user may choose for a table
MapAllIgnore == [h \in Range(HEADERS) |-> Ignore]
MapByName(df) == [h \in Range(HEADERS) |-> IF h \in Range(df.columns) THEN h ELSE Ignore]
MapByNameExcept(df, h0) == [MapByName(df) EXCEPT ![h0] = Ignore]
MapAllTo(c) == [h \in Range(HEADERS) |-> c]

Mappings(df) ==
    {MapAllIgnore, MapByName(df)}
    \cup {MapByNameExcept(df, h0) : h0 \in Range(KEY_COLUMNS)}
    \cup {MapAllTo(c) : c \in Range(df.columns)}

\* the states of the parts of the model a specification leaves alone
NoSheet == <<>>

SessionEmpty == [has_data |-> FALSE, data |-> RetUnset, has_xlsx |-> FALSE,
                 xlsx_output |-> NoSheet]

ScreenOf(kind, df, download, error) ==
    [kind |-> kind, preview |-> df, download |-> download, error |-> error]

NoEvent == [kind |-> "none", mapping |-> MapAllIgnore]

StIdle ==
    /\ st_uploaded_file = <<>>
    /\ session_state = SessionEmpty
    /\ screen = ScreenOf("idle", EmptyDf, NoSheet, "")
    /\ event = NoEvent

NoResponse == [client |-> 0, kind |-> "none", source |-> EmptyDf, columns |-> <<>>,
               body |-> <<>>, error |-> ""]

FlIdle ==
    /\ temp_pkl = <<>>
    /\ last_upload = <<>>
    /\ response = NoResponse

-----------------------------------------------------------------------------
(* src/app.py, extract_tables, step by step. *)

NoLast == [current_headers |-> NoHeaders, header_idx |-> NoIndex, width |-> 0,
           carried |-> NoHeaders, assigned |-> <<>>, unique |-> <<>>, raised |-> FALSE,
           cleaned |-> EmptyDf, out |-> EmptyDf]

ExIdle ==
    /\ pc = "idle" /\ uploaded_file = <<>> /\ fault = "none" /\ tmp_exists = FALSE
    /\ examined = 0 /\ start_page = NoIndex /\ engine_calls = <<>> /\ tables = <<>>
    /\ t = 0 /\ current_headers = NoHeaders /\ all_tables = <<>> /\ last = NoLast
    /\ ret = RetUnset /\ exc = ""

FnIdle ==
    /\ fn = "idle" /\ fn_pc = "idle" /\ cols_in = <<>> /\ cols_out = <<>>
    /\ df_in = EmptyDf /\ df_out = EmptyDf

ExInit ==
    /\ pc = "start"
    /\ uploaded_file \in Uploads
    /\ fault \in Faults
    /\ tmp_exists = FALSE
    /\ examined = 0 /\ start_page = NoIndex /\ engine_calls = <<>> /\ tables = <<>>
    /\ t = 0 /\ current_headers = NoHeaders /\ all_tables = <<>> /\ last = NoLast
    /\ ret = RetUnset /\ exc = ""
    /\ FnIdle /\ StIdle /\ FlIdle

\* line 72: NamedTemporaryFile(delete=False) creates the file
OpenTemp ==
    /\ pc = "start"
    /\ tmp_exists' = TRUE
    /\ pc' = "opened"
    /\ UNCHANGED <<uploaded_file, fault, examined, start_page, engine_calls, tables, t,
                   current_headers, all_tables, last, ret, exc>>
    /\ UNCHANGED <<fnVars, stVars, flVars>>

\* lines 73-74: the bytes are written; a failure leaves the with block, which
\* closes the file and keeps it (delete=False), and leaves extract_tables
WriteTemp ==
    /\ pc = "opened"
    /\ \/ fault # "write" /\ pc' = "scan" /\ exc' = exc
       \/ fault = "write" /\ pc' = "done" /\ exc' = "OSError"
    /\ UNCHANGED <<uploaded_file, fault, tmp_exists, examined, start_page, engine_calls,
                   tables, t, current_headers, all_tables, last, ret>>
    /\ UNCHANGED <<fnVars, stVars, flVars>>

\* lines 28-33 and 77-78: one pass of find_start_page's loop over the pages
ScanPage ==
    /\ pc = "scan"
    /\ \/ /\ fault = "scan"
          /\ exc' = "PDFSyntaxError" /\ pc' = "finally"
          /\ UNCHANGED <<examined, start_page, ret>>
       \/ /\ fault # "scan" /\ examined < Len(uploaded_file)
          /\ examined' = examined + 1
          /\ IF page_qualifies(uploaded_file[examined + 1])
             THEN start_page' = examined + 1 /\ pc' = "read"
             ELSE start_page' = start_page /\ pc' = "scan"
          /\ UNCHANGED <<ret, exc>>
       \/ /\ fault # "scan" /\ examined = Len(uploaded_file)
          /\ ret' = RetNone /\ pc' = "finally"
          /\ UNCHANGED <<examined, start_page, exc>>
    /\ UNCHANGED <<uploaded_file, fault, tmp_exists, engine_calls, tables, t,
                   current_headers, all_tables, last>>
    /\ UNCHANGED <<fnVars, stVars, flVars>>

\* lines 81-86: grid detection, then whitespace detection if it found nothing
ReadPdf ==
    /\ pc = "read"
    /\ \/ /\ fault = "engine"
          /\ engine_calls' = <<"lattice">>
          /\ exc' = "EngineError" /\ pc' = "finally"
          /\ UNCHANGED tables
       \/ /\ fault # "engine"
          /\ \E lattice \in {read_pdf(uploaded_file, start_page, "lattice")} :
                 IF Len(lattice) = 0
                 THEN /\ engine_calls' = <<"lattice", "stream">>
                      /\ tables' = read_pdf(uploaded_file, start_page, "stream")
                 ELSE /\ engine_calls' = <<"lattice">>
                      /\ tables' = lattice
          /\ pc' = "loop"
          /\ UNCHANGED exc
    /\ UNCHANGED <<uploaded_file, fault, tmp_exists, examined, start_page, t,
                   current_headers, all_tables, last, ret>>
    /\ UNCHANGED <<fnVars, stVars, flVars>>

\* lines 88-108: one pass of the loop over the tables
ProcessTable ==
    /\ pc = "loop" /\ t < Len(tables)
    /\ \E r \in {process_table(tables[t + 1], current_headers)} :
           /\ last' = r
           /\ current_headers' = r.current_headers
           /\ t' = t + 1
           /\ IF r.raised
              THEN exc' = "AttributeError" /\ pc' = "finally" /\ all_tables' = all_tables
              ELSE /\ exc' = exc /\ pc' = "loop"
                   /\ all_tables' = IF IsEmptyDf(r.out) THEN all_tables
                                    ELSE Append(all_tables, r.out)
    /\ UNCHANGED <<uploaded_file, fault, tmp_exists, examined, start_page, engine_calls,
                   tables, ret>>
    /\ UNCHANGED <<fnVars, stVars, flVars>>

\* lines 110-111: the fragments are concatenated and returned
ReturnTables ==
    /\ pc = "loop" /\ t = Len(tables)
    /\ ret' = IF Len(all_tables) = 0 THEN RetNone ELSE RetDf(concat(all_tables))
    /\ pc' = "finally"
    /\ UNCHANGED <<uploaded_file, fault, tmp_exists, examined, start_page, engine_calls,
                   tables, t, current_headers, all_tables, last, exc>>
    /\ UNCHANGED <<fnVars, stVars, flVars>>

\* lines 112-114: the finally block of the try
Finally ==
    /\ pc = "finally"
    /\ tmp_exists' = FALSE
    /\ pc' = "done"
    /\ UNCHANGED <<uploaded_file, fault, examined, start_page, engine_calls, tables, t,
                   current_headers, all_tables, last, ret, exc>>
    /\ UNCHANGED <<fnVars, stVars, flVars>>

ExNext == OpenTemp \/ WriteTemp \/ ScanPage \/ ReadPdf \/ ProcessTable \/ ReturnTables
          \/ Finally

SpecExtract == ExInit /\ [][ExNext]_vars

-----------------------------------------------------------------------------
(* src/app.py, the Streamlit script (lines 123-184): every interaction runs it  *)
(* from the top with st.session_state kept.                                      *)

\* the PDFs a user uploads in a session
SessionUploads == {<<pg>> : pg \in PagePool} \cup {<<PageHead, PageCont>>}

StInit ==
    /\ st_uploaded_file = <<>>
    /\ session_state = SessionEmpty
    /\ screen = ScreenOf("upload", EmptyDf, NoSheet, "")
    /\ event = NoEvent
    /\ FnIdle /\ ExIdle /\ FlIdle

\* One run of the script: file is the uploader's value, clicked whether the
\* button fired, mapping the selectboxes' values, flt what fails in extract_tables.
\* The session state and the screen the run leaves.
run_script(file, state, clicked, mapping, flt) ==
    IF file = <<>>
    THEN [state |-> state, screen |-> ScreenOf("upload", EmptyDf, NoSheet, "")]
    ELSE
    With(IF state.has_data THEN [exc |-> "", ret |-> state.data]
         ELSE extract_tables(file[1], flt), LAMBDA extracted :
    With(IF state.has_data THEN state
         ELSE [state EXCEPT !.has_data = TRUE, !.data = extracted.ret], LAMBDA state1 :
    With(state1.data.df, LAMBDA df :
        IF extracted.exc # ""
        THEN [state |-> state, screen |-> ScreenOf("exception", EmptyDf, NoSheet, extracted.exc)]
        ELSE IF state1.data.kind # "df" \/ IsEmptyDf(df)
        THEN [state |-> state1,
              screen |-> ScreenOf("error", EmptyDf, NoSheet, "No valid BBS tables found")]
        ELSE IF clicked /\ build_output_raises(df, mapping)
        THEN [state |-> state1,
              screen |-> ScreenOf("exception", display_df(df), NoSheet, "ValueError")]
        ELSE
    With(IF clicked
         THEN [state1 EXCEPT !.has_xlsx = TRUE,
                             !.xlsx_output = to_excel(build_output(df, mapping))]
         ELSE state1, LAMBDA state2 :
        [state |-> state2,
         screen |-> ScreenOf("table", display_df(df),
                             IF state2.has_xlsx THEN state2.xlsx_output ELSE NoSheet, "")]))))

\* the user uploads a PDF (replacing the one in the uploader, if any)
UploadFile ==
    \E pdf \in SessionUploads, flt \in Faults :
        /\ st_uploaded_file # <<pdf>>
        /\ st_uploaded_file' = <<pdf>>
        /\ \E r \in {run_script(<<pdf>>, session_state, FALSE, MapAllIgnore, flt)} :
              session_state' = r.state /\ screen' = r.screen
        /\ event' = [kind |-> "upload", mapping |-> MapAllIgnore]
        /\ UNCHANGED <<fnVars, exVars, flVars>>

\* the user removes the PDF from the uploader
RemoveFile ==
    /\ st_uploaded_file # <<>>
    /\ st_uploaded_file' = <<>>
    /\ \E r \in {run_script(<<>>, session_state, FALSE, MapAllIgnore, "none")} :
          session_state' = r.state /\ screen' = r.screen
    /\ event' = [kind |-> "remove", mapping |-> MapAllIgnore]
    /\ UNCHANGED <<fnVars, exVars, flVars>>

\* the user clicks "Process & Generate Excel" under the mapping chosen
ClickGenerate ==
    /\ st_uploaded_file # <<>>
    /\ screen.kind \in {"table", "exception"}
    /\ session_state.has_data /\ session_state.data.kind = "df"
    /\ \E mapping \in Mappings(session_state.data.df) :
          /\ \E r \in {run_script(st_uploaded_file, session_state, TRUE, mapping, "none")} :
                session_state' = r.state /\ screen' = r.screen
          /\ event' = [kind |-> "click", mapping |-> mapping]
    /\ UNCHANGED st_uploaded_file
    /\ UNCHANGED <<fnVars, exVars, flVars>>

StNext == UploadFile \/ RemoveFile \/ ClickGenerate

SpecSession == StInit /\ [][StNext]_vars

-----------------------------------------------------------------------------
(* src/run.py, the Flask application: the routes "/" and "/preview", called by  *)
(* several browsers in any order. The extracted table is kept in the file        *)
(* "temp.pkl" in the working directory of the server.                            *)

Clients == 1..NumSessions

\* the PDFs the browsers upload
FlaskUploads == {<<PageHead>>, <<PageTitle>>, <<PageStream>>, <<PageCont>>}

\* what may fail during an upload request (run.py writes no temporary PDF)
FlaskFaults == {"none", "scan", "engine"}

ResponseOf(client, kind, source, columns, body, error) ==
    [client |-> client, kind |-> kind, source |-> source, columns |-> columns,
     body |-> body, error |-> error]

FlInit ==
    /\ temp_pkl = <<>>
    /\ last_upload = [c \in Clients |-> <<>>]
    /\ response = NoResponse
    /\ FnIdle /\ ExIdle /\ StIdle

\* lines 86-89: POST /: the table extracted from the upload is pickled to
\* "temp.pkl" and the browser is redirected to /preview; an exception of
\* extract_tables leaves the file as it was
PostUpload ==
    \E c \in Clients, pdf \in FlaskUploads, flt \in FlaskFaults :
        /\ \E r \in {run_extract_tables(pdf, flt)} :
              IF r.exc # ""
              THEN /\ response' = ResponseOf(c, "error", EmptyDf, <<>>, <<>>, r.exc)
                   /\ UNCHANGED <<temp_pkl, last_upload>>
              ELSE /\ temp_pkl' = <<r.ret.df>>
                   /\ last_upload' = [last_upload EXCEPT ![c] = <<pdf>>]
                   /\ response' = ResponseOf(c, "redirect", EmptyDf, <<>>, <<>>, "")
        /\ UNCHANGED <<fnVars, exVars, stVars>>

\* lines 93-94 and 102: GET /preview: "temp.pkl" is read and rendered
GetPreview ==
    \E c \in Clients :
        /\ IF temp_pkl = <<>>
           THEN response' = ResponseOf(c, "error", EmptyDf, <<>>, <<>>, "FileNotFoundError")
           ELSE \E df \in {temp_pkl[1]} :
                   IF clean_dataframe_raises(df)
                   THEN response' = ResponseOf(c, "error", EmptyDf, <<>>, <<>>,
                                               "AttributeError")
                   ELSE response' = ResponseOf(c, "preview", df, df.columns,
                                               to_excel(clean_dataframe(df)), "")
        /\ UNCHANGED <<temp_pkl, last_upload>>
        /\ UNCHANGED <<fnVars, exVars, stVars>>

\* lines 93-101: POST /preview: "temp.pkl" is read and the mapped table is sent
\* as fixed_output.xlsx
PostPreview ==
    \E c \in Clients :
        /\ temp_pkl # <<>>
        /\ \E df \in {temp_pkl[1]} :
              \E mapping \in Mappings(df) :
                 IF clean_dataframe_raises(df)
                 THEN response' = ResponseOf(c, "error", EmptyDf, <<>>, <<>>, "AttributeError")
                 ELSE IF build_output_raises(df, mapping)
                 THEN response' = ResponseOf(c, "error", EmptyDf, <<>>, <<>>, "ValueError")
                 ELSE response' = ResponseOf(c, "export", df, df.columns,
                                             to_excel(build_output(df, mapping)), "")
        /\ UNCHANGED <<temp_pkl, last_upload>>
        /\ UNCHANGED <<fnVars, exVars, stVars>>

FlNext == PostUpload \/ GetPreview \/ PostPreview

SpecFlask == FlInit /\ [][FlNext]_vars

-----------------------------------------------------------------------------
(* The pure helpers called on their own. *)

LabelPool == {"a", "a ", "a_2", "b"}
\* an empty cell as the engine delivers it: no text, or white space only
BlankPool == {"", " "}

ColsInputs == SeqsUpTo(LabelPool, FnMaxCols)

\* tables of up to FnMaxCols columns and FnMaxRows rows whose cells are filled
\* ("x") or empty
DfInputs ==
    UNION {{[columns |-> RangeColumns(n), rows |-> rs] :
                rs \in SeqsUpTo([1..n -> {blank, "x"}], FnMaxRows)} :
           n \in 1..FnMaxCols, blank \in BlankPool}

FnInit ==
    /\ fn_pc = "ready"
    /\ cols_out = <<>>
    /\ df_out = EmptyDf
    /\ \/ fn = "make_columns_unique" /\ cols_in \in ColsInputs /\ df_in = EmptyDf
       \/ fn = "remove_sparse_rows" /\ df_in \in DfInputs /\ cols_in = <<>>
    /\ ExIdle /\ StIdle /\ FlIdle

CallMakeColumnsUnique ==
    /\ fn = "make_columns_unique" /\ fn_pc = "ready"
    /\ cols_out' = make_columns_unique(cols_in)
    /\ fn_pc' = "returned"
    /\ UNCHANGED <<fn, cols_in, df_in, df_out>>
    /\ UNCHANGED <<exVars, stVars, flVars>>

CallRemoveSparseRows ==
    /\ fn = "remove_sparse_rows" /\ fn_pc = "ready"
    /\ df_out' = remove_sparse_rows(df_in, Half)
    /\ fn_pc' = "returned"
    /\ UNCHANGED <<fn, cols_in, cols_out, df_in>>
    /\ UNCHANGED <<exVars, stVars, flVars>>

FnNext == CallMakeColumnsUnique \/ CallRemoveSparseRows

SpecFn == FnInit /\ [][FnNext]_vars

-----------------------------------------------------------------------------
(* Claims about the pure helpers. *)

\* the indices of the rows of df with strictly more than half of the columns non-empty
DenseIdx(df) == {i \in 1..Len(df.rows) : 2 * NonEmptyCount(df.rows[i]) > Len(df.columns)}

\* the k-th smallest element of a set of naturals
KthOf(S, k) == CHOOSE i \in S : Cardinality({j \in S : j < i}) = k - 1

\* C5: remove_sparse_rows with threshold 0.5 keeps exactly the rows with strictly
\* more than half of the columns non-empty after trimming (a row at exactly 50%
\* is discarded), in their original relative order.
C5_SparseKeepsStrictMajority ==
    (fn = "remove_sparse_rows" /\ fn_pc = "returned") =>
        /\ df_out.columns = df_in.columns
        /\ Len(df_out.rows) = Cardinality(DenseIdx(df_in))
        /\ \A k \in 1..Len(df_out.rows) : df_out.rows[k] = df_in.rows[KthOf(DenseIdx(df_in), k)]

\* C5 witness: a call that discarded a row at exactly 50% and kept a later row above 50%
C5_Witness ==
    /\ fn = "remove_sparse_rows" /\ fn_pc = "returned"
    /\ \E i \in 1..Len(df_in.rows) :
          /\ 2 * NonEmptyCount(df_in.rows[i]) = Len(df_in.columns)
          /\ i \notin DenseIdx(df_in)
    /\ Len(df_out.rows) = 1
    /\ Len(df_in.rows) = 2

\* the number of labels before position i that equal label i after trimming
PriorCount(cols, i) == Cardinality({j \in 1..(i - 1) : Strip(cols[j]) = Strip(cols[i])})

\* C6 as stated: the first occurrence keeps the bare label and the k-th later
\* repeat gets the suffix "_k" ("a", "a" becomes "a", "a_1").
C6_RepeatSuffixFromOne ==
    (fn = "make_columns_unique" /\ fn_pc = "returned") =>
        /\ Len(cols_out) = Len(cols_in)
        /\ \A i \in 1..Len(cols_in) :
              cols_out[i] = IF PriorCount(cols_in, i) = 0
                            THEN Strip(cols_in[i])
                            ELSE Strip(cols_in[i]) \o "_" \o ToString(PriorCount(cols_in, i))

\* C6 amended: the first occurrence keeps the bare (trimmed) label and the k-th
\* later repeat gets the suffix "_(k+1)", its occurrence number ("a", "a", "a"
\* becomes "a", "a_2", "a_3").
C6_RepeatSuffixFromTwo ==
    (fn = "make_columns_unique" /\ fn_pc = "returned") =>
        /\ Len(cols_out) = Len(cols_in)
        /\ \A i \in 1..Len(cols_in) :
              cols_out[i] = IF PriorCount(cols_in, i) = 0
                            THEN Strip(cols_in[i])
                            ELSE Strip(cols_in[i]) \o "_" \o ToString(PriorCount(cols_in, i) + 1)

\* C6 witness: label "a" three times in a row came back as "a", "a_2", "a_3"
C6_Witness ==
    /\ fn = "make_columns_unique" /\ fn_pc = "returned"
    /\ cols_in = <<"a", "a", "a">>
    /\ cols_out = <<"a", "a_2", "a_3">>

-----------------------------------------------------------------------------
(* Claims about extract_tables of src/app.py. *)

\* C1: the column labels of every fragment after make_columns_unique (line 99)
\* are pairwise distinct.
C1_NormalizedLabelsDistinct ==
    t > 0 => ~HasDuplicates(last.unique)

\* C4: on every exit path of extract_tables the temporary PDF file no longer
\* exists when the call ends.
C4_TempFileGoneAtExit ==
    pc = "done" => ~tmp_exists

\* the marker test of the Page Locator, spelled out: the page's words, lowercased
\* and joined by single spaces, contain "bar" and contain "mark"
C7_HasMarker(page) ==
    LET text == Join([i \in 1..Len(page.words) |-> Lower(page.words[i])], " ")
    IN  (\E i \in 1..(Len(text) - 2) : SubSeq(text, i, i + 2) = "bar")
        /\ (\E i \in 1..(Len(text) - 3) : SubSeq(text, i, i + 3) = "mark")

\* C7: find_start_page examines the pages in document order, returns the 1-based
\* index of the first page with the marker and examines no page after it; when
\* no page has the marker, extract_tables returns None (src/app.py) or an empty
\* table (src/run.py) without raising and without calling the table-detection
\* engine.
C7_FirstMarkerPageOrNone ==
    /\ examined \in 0..Len(uploaded_file)
    /\ \A i \in 1..(examined - 1) : ~C7_HasMarker(uploaded_file[i])
    /\ start_page # NoIndex =>
          /\ start_page = examined
          /\ C7_HasMarker(uploaded_file[start_page])
    /\ pc \in {"read", "loop"} => start_page # NoIndex
    /\ engine_calls # <<>> => start_page # NoIndex
    /\ (pc = "done" /\ fault \in {"none", "engine"}
            /\ \A i \in 1..Len(uploaded_file) : ~C7_HasMarker(uploaded_file[i])) =>
          /\ examined = Len(uploaded_file)
          /\ start_page = NoIndex
          /\ ret = RetNone
          /\ exc = ""
          /\ engine_calls = <<>>
    /\ (\A i \in 1..Len(uploaded_file) : ~C7_HasMarker(uploaded_file[i])) =>
          /\ find_start_page(uploaded_file) = NoIndex
          /\ run_extract_tables(uploaded_file, "engine") = [exc |-> "", ret |-> RetDf(EmptyDf)]
    /\ start_page # NoIndex => find_start_page(uploaded_file) = start_page

\* C7 witness: a call on a PDF of two or more pages, none with the marker, has ended
C7_Witness ==
    /\ pc = "done" /\ fault = "none"
    /\ Len(uploaded_file) >= 2
    /\ \A i \in 1..Len(uploaded_file) : ~C7_HasMarker(uploaded_file[i])
    /\ examined = Len(uploaded_file)
    /\ ret = RetNone

\* the header row of a raw table, trimmed, as <<labels>>; <<>> if it has none
C9_HeaderOf(grid) ==
    LET rows == [i \in 1..Len(grid) |-> [j \in 1..Len(grid[i]) |-> ReplaceNewlines(grid[i][j])]]
        hits == {i \in 1..Len(rows) : row_is_header(rows[i])}
        first == CHOOSE i \in hits : \A k \in hits : i <= k
    IN  IF hits = {} THEN <<>>
        ELSE <<[j \in 1..Len(rows[first]) |-> Strip(rows[first][j])]>>

\* the header row of the last of the first n tables that has one; <<>> if none has
C9_CarriedAfter(n) ==
    LET headed == {k \in 1..n : C9_HeaderOf(tables[k]) # <<>>}
    IN  IF headed = {} THEN <<>>
        ELSE C9_HeaderOf(tables[CHOOSE k \in headed : \A m \in headed : m <= k])

\* C9: while the fragments of one upload are processed in order, the carried
\* header is the header row of the most recent fragment that had one (none before
\* the first); a fragment without a header row of its own gets the carried labels
\* exactly when its column count equals their number, and otherwise keeps
\* positional labels, losing no row but to the sparsity filter.
C9_HeaderCarriedForward ==
    (pc \in {"loop", "finally", "done"} /\ t <= Len(tables)) =>
        /\ current_headers = C9_CarriedAfter(t)
        /\ (t > 0 /\ C9_HeaderOf(tables[t]) = <<>>) =>
              LET carried == C9_CarriedAfter(t - 1)
                  width == Len(tables[t][1])
                  inherits == carried # <<>> /\ Len(carried[1]) = width
              IN  /\ last.assigned = IF inherits THEN carried[1] ELSE RangeColumns(width)
                  /\ (~inherits /\ ~last.raised) =>
                        /\ Len(last.cleaned.rows) = Len(tables[t])
                        /\ Len(last.out.rows) = Cardinality(DenseIdx(last.cleaned))
                        /\ \A k \in 1..Len(last.out.rows) :
                              last.out.rows[k] = last.cleaned.rows[KthOf(DenseIdx(last.cleaned), k)]

\* C9 witness: after a fragment with a header row, a narrower fragment without
\* one was processed, kept positional labels and a row
C9_Witness ==
    /\ pc = "loop" /\ t >= 2
    /\ C9_HeaderOf(tables[t]) = <<>>
    /\ current_headers # NoHeaders
    /\ Len(tables[t][1]) # Len(current_headers[1])
    /\ last.assigned = RangeColumns(Len(tables[t][1]))
    /\ Len(last.out.rows) > 0

\* C10: after clean_dataframe a fragment holds no column whose cells are empty
\* in every row.
C10_NoEmptyColumnAfterClean ==
    (t > 0 /\ ~last.raised) =>
        \A j \in 1..Len(last.cleaned.columns) :
            \E i \in 1..Len(last.cleaned.rows) : last.cleaned.rows[i][j] # ""

-----------------------------------------------------------------------------
(* Claims about the Streamlit session of src/app.py. *)

\* C2: for every non-empty AssembledTable and every mapping, the all-ignore one
\* included, generating the output yields a table whose columns are exactly the
\* 14 canonical headers in order, with an all-empty cell per row under every
\* ignored header.
C2_OutputHasCanonicalColumns ==
    event.kind = "click" =>
        /\ screen.kind = "table"
        /\ session_state.has_xlsx
        /\ screen.download = session_state.xlsx_output
        /\ Len(session_state.xlsx_output) = 1 + Len(session_state.data.df.rows)
        /\ session_state.xlsx_output[1] = HEADERS
        /\ \A i \in 2..Len(session_state.xlsx_output) :
              /\ Len(session_state.xlsx_output[i]) = Len(HEADERS)
              /\ \A k \in 1..Len(HEADERS) :
                    event.mapping[HEADERS[k]] = Ignore => session_state.xlsx_output[i][k] = ""

\* the table extract_tables returns for the PDF now in the uploader
C3_ActiveTable == extract_tables(st_uploaded_file[1], "none").ret

\* C3: after a new PDF is uploaded the stored table and the stored spreadsheet
\* are replaced or cleared: what is held, shown and offered for download always
\* comes from the PDF now in the uploader.
C3_StateFollowsActiveUpload ==
    st_uploaded_file # <<>> =>
        /\ session_state.has_data => session_state.data = C3_ActiveTable
        /\ screen.kind = "table" => screen.preview = display_df(C3_ActiveTable.df)
        /\ screen.download # NoSheet =>
              \E mapping \in Mappings(C3_ActiveTable.df) :
                  /\ ~build_output_raises(C3_ActiveTable.df, mapping)
                  /\ screen.download = to_excel(build_output(C3_ActiveTable.df, mapping))

\* the table extracted from the most recent upload of client c that succeeded
C8_OwnTable(c) == run_extract_tables(last_upload[c][1], "none").ret.df

\* C8: with several sessions interleaving their requests against the Flask
\* application, the table a session that has uploaded previews or exports is
\* the one extracted from that session's own most recent upload, never another
\* session's.
C8_SessionSeesOwnUpload ==
    (response.kind \in {"preview", "export"} /\ last_upload[response.client] # <<>>) =>
        response.source = C8_OwnTable(response.client)

=============================================================================
